---------------------------- MODULE Spec2Model ----------------------------
(***************************************************************************)
(* Model of detector.js: the TextAnalyzer class (the text-statistics       *)
(* pipeline and its chart updates) and the two UI handlers                 *)
(* window.analyzeText and window.clearText.                                *)
(*                                                                         *)
(* A JavaScript string is a sequence of one-character strings.  An object  *)
(* used as a table (frequency, wordFrequency) is the sequence of its       *)
(* properties in creation order.  Objects that are shared by reference     *)
(* (the metrics object, the Chart objects) live in stores indexed by       *)
(* reference; 0 is null.                                                   *)
(***************************************************************************)
EXTENDS Integers, Sequences, FiniteSets, TLC

VARIABLES
    textInput,          \* document.getElementById('textInput').value
    aiScore,            \* textContent of the #aiScore element
    detailedAnalysis,   \* innerHTML of the #detailedAnalysis element
    canvases,           \* the chart canvases present in the document
    charts,             \* the module-level `charts` object: handle per chart
    chartStore,         \* the Chart objects: chartStore[id] = destroy() calls
    analyzer,           \* a TextAnalyzer instance: currentText, metrics (ref)
    heap,               \* the metrics objects: heap[ref] = the object's value
    returned,           \* the results a caller of the instance holds
    clicks              \* number of UI handler runs so far

vars == <<textInput, aiScore, detailedAnalysis, canvases, charts, chartStore,
          analyzer, heap, returned, clicks>>

-----------------------------------------------------------------------------
(* Bounds of the model *)

\* short input texts are concatenations of at most MaxPieces pieces
MaxPieces == 3
\* long input texts repeat a unit at most MaxRep times
MaxRep == 26
\* UI handler runs per behaviour
MaxClicks == 3
\* analyzeText calls on one instance per behaviour
MaxCalls == 3

-----------------------------------------------------------------------------
(* Characters and strings *)

\* the characters matched by \s and stripped by trim()
Whitespace == {" ", "\t", "\n", "\r"}

\* the characters of the sentence delimiter class [.!?]
Delimiters == {".", "!", "?"}

DigitChars == <<"0", "1", "2", "3", "4", "5", "6", "7", "8", "9">>

UpperChars == <<"A", "B", "C", "D", "E", "F", "G", "H", "I", "J", "K", "L", "M",
                "N", "O", "P", "Q", "R", "S", "T", "U", "V", "W", "X", "Y", "Z",
                "À", "Â", "Ç", "É", "È", "Ê", "Î", "Ô", "Ù", "Û">>

LowerChars == <<"a", "b", "c", "d", "e", "f", "g", "h", "i", "j", "k", "l", "m",
                "n", "o", "p", "q", "r", "s", "t", "u", "v", "w", "x", "y", "z",
                "à", "â", "ç", "é", "è", "ê", "î", "ô", "ù", "û">>

\* Loops over an array (forEach, reduce, the scan of split) are folds from
\* the left over a[lo..hi].  Each fold halves its range and binds the value
\* of the left half before it folds the right half, which keeps the
\* evaluation depth logarithmic in the length of the array.

IndexIn(c, chars) == CHOOSE i \in 1..Len(chars) : chars[i] = c

IsIn(c, chars) == \E i \in 1..Len(chars) : chars[i] = c

LowerChar(c) == IF IsIn(c, UpperChars) THEN LowerChars[IndexIn(c, UpperChars)] ELSE c

\* String.prototype.toLowerCase
ToLowerCase(s) == [i \in 1..Len(s) |-> LowerChar(s[i])]

\* String.prototype.includes
Includes(s, sub) ==
    \E i \in 1..(Len(s) - Len(sub) + 1) : SubSeq(s, i, i + Len(sub) - 1) = sub

\* String.prototype.trim
Trim(s) ==
    LET keep == {i \in 1..Len(s) : s[i] \notin Whitespace}
    IN  IF keep = {} THEN <<>>
        ELSE LET lo == CHOOSE i \in keep : \A j \in keep : i <= j
                 hi == CHOOSE i \in keep : \A j \in keep : j <= i
             IN  SubSeq(s, lo, hi)

\* String.prototype.split(/[Sep]+/): the fields between the maximal runs of
\* separator characters; a leading or trailing run leaves an empty field, and
\* a string without separator (the empty string included) is one field.
SplitStep(st, c, Sep) ==
    IF c \in Sep
    THEN IF st.inSep THEN st
         ELSE [fields |-> Append(st.fields, st.cur), cur |-> <<>>, inSep |-> TRUE]
    ELSE [fields |-> st.fields, cur |-> Append(st.cur, c), inSep |-> FALSE]

RECURSIVE SplitRange(_, _, _, _, _)
SplitRange(s, Sep, st, lo, hi) ==
    IF lo > hi THEN st
    ELSE IF lo = hi THEN SplitStep(st, s[lo], Sep)
    ELSE LET mid == (lo + hi) \div 2
         IN  CHOOSE r \in {SplitRange(s, Sep, left, mid + 1, hi) :
                              left \in {SplitRange(s, Sep, st, lo, mid)}} : TRUE

Split(s, Sep) ==
    LET end == SplitRange(s, Sep, [fields |-> <<>>, cur |-> <<>>, inSep |-> FALSE],
                          1, Len(s))
    IN  Append(end.fields, end.cur)

\* Array.prototype.slice(0, n)
SliceTo(a, n) == SubSeq(a, 1, IF Len(a) < n THEN Len(a) ELSE n)

RECURSIVE SumRange(_, _, _)
SumRange(a, lo, hi) ==
    IF lo > hi THEN 0
    ELSE IF lo = hi THEN a[lo]
    ELSE LET mid == (lo + hi) \div 2
         IN  SumRange(a, lo, mid) + SumRange(a, mid + 1, hi)

\* a.reduce((x, y) => x + y, 0)
SumSeq(a) == SumRange(a, 1, Len(a))

-----------------------------------------------------------------------------
(* Objects used as tables *)

\* (words that name a property of Object.prototype, such as "constructor",
\* are not among the inputs: every key read here is an own property or absent)
HasKey(obj, k) == \E i \in 1..Len(obj) : obj[i].word = k

\* obj[k] = (obj[k] || 0) + 1
Increment(obj, k) ==
    IF HasKey(obj, k)
    THEN [i \in 1..Len(obj) |->
            IF obj[i].word = k THEN [word |-> k, count |-> obj[i].count + 1]
            ELSE obj[i]]
    ELSE Append(obj, [word |-> k, count |-> 1])

DigitOf(c) == IndexIn(c, DigitChars) - 1

\* a < b for two digit strings of the same length
RECURSIVE LexLess(_, _)
LexLess(a, b) ==
    IF a = <<>> THEN FALSE
    ELSE \/ DigitOf(a[1]) < DigitOf(b[1])
         \/ a[1] = b[1] /\ LexLess(Tail(a), Tail(b))

\* numeric a < b for two canonical decimal strings
NumLess(a, b) == Len(a) < Len(b) \/ (Len(a) = Len(b) /\ LexLess(a, b))

\* 2^32 - 1 in decimal
MaxIndexBound == <<"4", "2", "9", "4", "9", "6", "7", "2", "9", "5">>

\* a property key that is an array index: the canonical decimal form of an
\* integer in 0 .. 2^32 - 2
IsArrayIndex(k) ==
    /\ Len(k) >= 1
    /\ \A i \in 1..Len(k) : IsIn(k[i], DigitChars)
    /\ Len(k) = 1 \/ k[1] # "0"
    /\ NumLess(k, MaxIndexBound)

\* Object.entries: the array-index keys in ascending numeric order, then the
\* other keys in creation order
ObjectEntries(obj) ==
    LET idx == {i \in 1..Len(obj) : IsArrayIndex(obj[i].word)}
        Rank(i) ==
            IF i \in idx
            THEN 1 + Cardinality({j \in idx : NumLess(obj[j].word, obj[i].word)})
            ELSE Cardinality(idx) + Cardinality({j \in 1..i : j \notin idx})
    IN  [p \in 1..Len(obj) |-> obj[CHOOSE i \in 1..Len(obj) : Rank(i) = p]]

\* Array.prototype.sort((a, b) => b[1] - a[1]): stable, descending count
SortByCountDesc(a) ==
    LET Rank(i) == 1 + Cardinality({j \in 1..Len(a) : a[j].count > a[i].count})
                     + Cardinality({j \in 1..(i - 1) : a[j].count = a[i].count})
    IN  [p \in 1..Len(a) |-> a[CHOOSE i \in 1..Len(a) : Rank(i) = p]]

-----------------------------------------------------------------------------
(* The analysis pipeline of TextAnalyzer *)

COMMON_TRANSITIONS == <<
    <<"p", "r", "e", "m", "i", "è", "r", "e", "m", "e", "n", "t">>,
    <<"d", "e", "u", "x", "i", "è", "m", "e", "m", "e", "n", "t">>,
    <<"e", "n", "s", "u", "i", "t", "e">>,
    <<"p", "u", "i", "s">>,
    <<"e", "n", "f", "i", "n">>,
    <<"c", "e", "p", "e", "n", "d", "a", "n", "t">>,
    <<"n", "é", "a", "n", "m", "o", "i", "n", "s">>,
    <<"t", "o", "u", "t", "e", "f", "o", "i", "s">>,
    <<"m", "a", "i", "s">>,
    <<"o", "r">>,
    <<"d", "o", "n", "c">>,
    <<"a", "i", "n", "s", "i">>,
    <<"p", "a", "r", " ", "c", "o", "n", "s", "é", "q", "u", "e", "n", "t">>,
    <<"e", "n", " ", "e", "f", "f", "e", "t">>,
    <<"c", "a", "r">>,
    <<"d", "e", " ", "p", "l", "u", "s">>,
    <<"e", "n", " ", "o", "u", "t", "r", "e">>,
    <<"é", "g", "a", "l", "e", "m", "e", "n", "t">>,
    <<"a", "u", "s", "s", "i">>,
    <<"p", "a", "r", " ", "a", "i", "l", "l", "e", "u", "r", "s">> >>

\* a quotient of two integers (a JavaScript number that need not be an integer)
Ratio(n, d) == [num |-> n, den |-> d]

getEmptyMetrics ==
    [vocabularyStats |->
        [uniqueWords |-> 0, totalWords |-> 0, avgWordLength |-> Ratio(0, 1),
         commonWords |-> <<>>],
     sentenceStats |->
        [lengths |-> <<>>,
         types |-> [simple |-> 0, compound |-> 0, complex |-> 0],
         transitions |-> <<>>]]

\* words.forEach(word => { if (word.length > 3) frequency[lower]++ })
CountWord(frequency, word) ==
    IF Len(word) > 3 THEN Increment(frequency, ToLowerCase(word)) ELSE frequency

RECURSIVE CountWordsRange(_, _, _, _)
CountWordsRange(words, frequency, lo, hi) ==
    IF lo > hi THEN frequency
    ELSE IF lo = hi THEN CountWord(frequency, words[lo])
    ELSE LET mid == (lo + hi) \div 2
         IN  CHOOSE r \in {CountWordsRange(words, left, mid + 1, hi) :
                              left \in {CountWordsRange(words, frequency, lo, mid)}} : TRUE

CountWords(words, frequency) == CountWordsRange(words, frequency, 1, Len(words))

getMostCommonWords(words, limit) ==
    SliceTo(SortByCountDesc(ObjectEntries(CountWords(words, <<>>))), limit)

findTransitions(text) ==
    SelectSeq(COMMON_TRANSITIONS,
              LAMBDA transition : Includes(ToLowerCase(text), ToLowerCase(transition)))

\* text.split(/\s+/).filter(w => w.length > 0)
NonEmptyWords(text) == SelectSeq(Split(text, Whitespace), LAMBDA w : Len(w) > 0)

analyzeVocabularyStats(text) ==
    LET words == NonEmptyWords(text)
        wordLengths == [i \in 1..Len(words) |-> Len(words[i])]
    IN  [uniqueWords |-> Cardinality({ToLowerCase(words[i]) : i \in 1..Len(words)}),
         totalWords |-> Len(words),
         \* 0 / 0 is NaN, and NaN || 0 is 0
         avgWordLength |-> IF Len(words) = 0 THEN Ratio(0, 1)
                           ELSE Ratio(SumSeq(wordLengths), Len(words)),
         commonWords |-> getMostCommonWords(words, 20)]

\* text.split(/[.!?]+/).filter(s => s.trim().length > 0): the sentences are
\* kept as split, the trimmed form only decides which ones are kept
SplitSentences(text) == SelectSeq(Split(text, Delimiters), LAMBDA s : Len(Trim(s)) > 0)

Comma == <<",">>
Qui == <<"q", "u", "i">>
Que == <<"q", "u", "e">>
Et == <<"e", "t">>
Ou == <<"o", "u">>

\* the classification with the compound test first
ClassifySentenceCompoundFirst(types, sentence) ==
    IF Includes(sentence, Comma) \/ Includes(sentence, Et) \/ Includes(sentence, Ou)
    THEN [types EXCEPT !.compound = @ + 1]
    ELSE IF Includes(sentence, Comma) /\ (Includes(sentence, Qui) \/ Includes(sentence, Que))
         THEN [types EXCEPT !.complex = @ + 1]
         ELSE [types EXCEPT !.simple = @ + 1]

\* the classification with `if` in place of `else if`: a complex sentence
\* goes on to the second test
ClassifySentenceNoElse(types, sentence) ==
    LET first == IF Includes(sentence, Comma)
                    /\ (Includes(sentence, Qui) \/ Includes(sentence, Que))
                 THEN [types EXCEPT !.complex = @ + 1]
                 ELSE types
    IN  IF Includes(sentence, Comma) \/ Includes(sentence, Et) \/ Includes(sentence, Ou)
        THEN [first EXCEPT !.compound = @ + 1]
        ELSE [first EXCEPT !.simple = @ + 1]

\* the body of sentences.forEach in analyzeSentenceStructure
ClassifySentence(types, sentence) ==
    IF Includes(sentence, Comma) /\ (Includes(sentence, Qui) \/ Includes(sentence, Que))
    THEN [types EXCEPT !.complex = @ + 1]
    ELSE IF Includes(sentence, Comma) \/ Includes(sentence, Et) \/ Includes(sentence, Ou)
         THEN [types EXCEPT !.compound = @ + 1]
         ELSE [types EXCEPT !.simple = @ + 1]

RECURSIVE ClassifyRange(_, _, _, _)
ClassifyRange(sentences, types, lo, hi) ==
    IF lo > hi THEN types
    ELSE IF lo = hi THEN ClassifySentence(types, sentences[lo])
    ELSE LET mid == (lo + hi) \div 2
         IN  CHOOSE r \in {ClassifyRange(sentences, left, mid + 1, hi) :
                              left \in {ClassifyRange(sentences, types, lo, mid)}} : TRUE

ClassifyAll(sentences, types) == ClassifyRange(sentences, types, 1, Len(sentences))

\* sentences.map(s => s.split(/\s+/).length)
SentenceLength(s) == Len(Split(s, Whitespace))

analyzeSentenceStructure(text) ==
    LET sentences == SplitSentences(text)
    IN  [lengths |-> [i \in 1..Len(sentences) |-> SentenceLength(sentences[i])],
         types |-> ClassifyAll(sentences, [simple |-> 0, compound |-> 0, complex |-> 0]),
         transitions |-> findTransitions(text)]

Marker(type, severity, message, args) ==
    [type |-> type, severity |-> severity, message |-> message, args |-> args]

\* Each check of performDetailedAnalysis takes the markers and the score so
\* far (acc) and returns them updated.  The numbers a message interpolates
\* are its args.

\* words.length / sentences.length > 25, with JavaScript's division: n / 0 is
\* Infinity for n > 0 (split never returns an empty array)
LongSentencesCheck(acc, text) ==
    LET sentences == SplitSentences(text)
        words == Split(ToLowerCase(text), Whitespace)
    IN  IF \/ Len(sentences) = 0 /\ Len(words) > 0
           \/ Len(sentences) > 0 /\ Len(words) > 25 * Len(sentences)
        THEN [markers |-> Append(acc.markers,
                            Marker("structure", "high", "Les phrases sont très longues", <<>>)),
              score |-> acc.score + 15]
        ELSE acc

RepeatedWordsCheck(acc, text) ==
    LET words == Split(ToLowerCase(text), Whitespace)
        wordFrequency == CountWords(words, <<>>)
        repeatedWords == SelectSeq(ObjectEntries(wordFrequency), LAMBDA e : e.count > 3)
    IN  IF Len(repeatedWords) > 0
        THEN [markers |-> Append(acc.markers,
                            Marker("vocabulary", "medium", "Mots fréquemment répétés",
                                   SliceTo(repeatedWords, 5))),
              score |-> acc.score]
        ELSE acc

\* transitionCount < sentences.length / 4
TransitionsCheck(acc, text, metrics) ==
    LET sentences == SplitSentences(text)
        transitionCount == Len(metrics.sentenceStats.transitions)
    IN  IF 4 * transitionCount < Len(sentences)
        THEN [markers |-> Append(acc.markers,
                            Marker("coherence", "medium", "Manque de mots de transition", <<>>)),
              score |-> acc.score + 10]
        ELSE acc

\* simple / total > 0.7; 0 / 0 is NaN and no comparison with NaN holds
StructureVarietyCheck(acc, metrics) ==
    LET types == metrics.sentenceStats.types
        total == types.simple + types.compound + types.complex
    IN  IF total > 0 /\ 10 * types.simple > 7 * total
        THEN [markers |-> Append(acc.markers,
                            Marker("structure", "medium", "Structure des phrases trop simple", <<>>)),
              score |-> acc.score + 10]
        ELSE acc

\* the vocabulary check adding its 20 without pushing its marker
VocabularyCheckNoMarker(acc, metrics) ==
    IF /\ metrics.vocabularyStats.totalWords > 0
       /\ 10 * metrics.vocabularyStats.uniqueWords < 4 * metrics.vocabularyStats.totalWords
    THEN [markers |-> acc.markers, score |-> acc.score + 20]
    ELSE acc

\* uniqueWords / totalWords < 0.4; 0 / 0 is NaN
VocabularyCheck(acc, metrics) ==
    LET uniqueWords == metrics.vocabularyStats.uniqueWords
        totalWords == metrics.vocabularyStats.totalWords
    IN  IF totalWords > 0 /\ 10 * uniqueWords < 4 * totalWords
        THEN [markers |-> Append(acc.markers,
                            Marker("vocabulary", "high", "Vocabulaire peu varié",
                                   <<uniqueWords, totalWords>>)),
              score |-> acc.score + 20]
        ELSE acc

performDetailedAnalysis(text, metrics) ==
    LET a0 == [markers |-> <<>>, score |-> 0]
        a1 == LongSentencesCheck(a0, text)
        a2 == RepeatedWordsCheck(a1, text)
        a3 == TransitionsCheck(a2, text, metrics)
        a4 == StructureVarietyCheck(a3, metrics)
    IN  VocabularyCheck(a4, metrics)

-----------------------------------------------------------------------------
(* The charts *)

ChartNames == {"vocabularyDiversity", "sentenceStructure", "commonWords"}

\* the module-level `charts` object as first evaluated: every handle null
NoCharts == [c \in ChartNames |-> 0]

\* gfx = [charts, chartStore].  One update method: nothing without the canvas;
\* otherwise destroy() on the chart the handle holds, if any, and a new Chart
\* stored in the handle
ReplaceChart(gfx, present, name, type, data) ==
    IF name \notin present THEN gfx
    ELSE LET old == gfx.charts[name]
             store == IF old # 0
                      THEN [gfx.chartStore EXCEPT ![old].destroyCalls = @ + 1]
                      ELSE gfx.chartStore
         IN  [charts |-> [gfx.charts EXCEPT ![name] = Len(store) + 1],
              chartStore |-> Append(store, [type |-> type, data |-> data,
                                            destroyCalls |-> 0])]

updateVocabularyDiversityChart(gfx, present, metrics) ==
    ReplaceChart(gfx, present, "vocabularyDiversity", "doughnut",
                 Ratio(metrics.vocabularyStats.uniqueWords,
                       metrics.vocabularyStats.totalWords))

updateSentenceStructureChart(gfx, present, metrics) ==
    ReplaceChart(gfx, present, "sentenceStructure", "pie", metrics.sentenceStats.types)

updateCommonWordsChart(gfx, present, metrics) ==
    ReplaceChart(gfx, present, "commonWords", "bar",
                 SliceTo(metrics.vocabularyStats.commonWords, 10))

updateCharts(gfx, present, metrics) ==
    updateCommonWordsChart(
        updateSentenceStructureChart(
            updateVocabularyDiversityChart(gfx, present, metrics),
            present, metrics),
        present, metrics)

\* Object.values(charts).forEach(chart => { if (chart) chart.destroy(); })
DestroyAll(cs, store) ==
    [id \in 1..Len(store) |->
        IF \E c \in ChartNames : cs[c] = id
        THEN [store[id] EXCEPT !.destroyCalls = @ + 1]
        ELSE store[id]]

-----------------------------------------------------------------------------
(* The TextAnalyzer instance *)

\* new TextAnalyzer(): the instance and the heap with its metrics object
\* (the cache Map is never read or written)
NewTextAnalyzer(hp) ==
    [analyzer |-> [currentText |-> <<>>, metrics |-> Len(hp) + 1],
     heap |-> Append(hp, getEmptyMetrics)]

\* analyzeAIContent assigns the two halves of this.metrics, then
\* performDetailedAnalysis reads this.metrics
analyzeAIContent(text, hp, ref) ==
    LET h1 == [hp EXCEPT ![ref].vocabularyStats = analyzeVocabularyStats(text)]
        h2 == [h1 EXCEPT ![ref].sentenceStats = analyzeSentenceStructure(text)]
        analysis == performDetailedAnalysis(text, h2[ref])
    IN  [heap |-> h2, score |-> analysis.score, aiMarkers |-> analysis.markers]

\* the report: the statistics it prints (before number formatting) and the
\* markers, in order
formatDetailsBase(aiMarkers, metrics) ==
    [kind |-> "report",
     totalWords |-> metrics.vocabularyStats.totalWords,
     uniqueWords |-> metrics.vocabularyStats.uniqueWords,
     avgWordLength |-> metrics.vocabularyStats.avgWordLength,
     sentences |-> Len(metrics.sentenceStats.lengths),
     types |-> metrics.sentenceStats.types,
     transitions |-> metrics.sentenceStats.transitions,
     markers |-> aiMarkers]

\* "Veuillez entrer du texte à analyser."
Advisory == [kind |-> "advisory"]

\* analyzeText without its `this.metrics = this.getEmptyMetrics()`: the
\* pipeline fills the object the instance already holds
FreshMetricsReused(an, hp) == [analyzer |-> an, heap |-> hp]

\* the metrics object analyzeText works on: a fresh one, installed in
\* this.metrics
FreshMetrics(an, hp) ==
    [analyzer |-> [an EXCEPT !.metrics = Len(hp) + 1],
     heap |-> Append(hp, getEmptyMetrics)]

\* the guard without trim(): if (!text)
IsEmptyInputNoTrim(text) == text = <<>>

\* !text.trim()
IsEmptyInput(text) == Trim(text) = <<>>

\* analyzer.analyzeText(text): the instance, the heap, the charts and the
\* result after the call.  The body has no await: it runs to its return.
analyzeTextCall(an, hp, gfx, present, text) ==
    LET an1 == [an EXCEPT !.currentText = text]
    IN  IF IsEmptyInput(text)
        THEN [analyzer |-> an1,
              heap |-> Append(hp, getEmptyMetrics),
              gfx |-> gfx,
              result |-> [aiScore |-> 0, details |-> Advisory, metrics |-> Len(hp) + 1]]
        ELSE LET fresh == FreshMetrics(an1, hp)
                 ref == fresh.analyzer.metrics
                 content == analyzeAIContent(text, fresh.heap, ref)
             IN  [analyzer |-> fresh.analyzer,
                  heap |-> content.heap,
                  gfx |-> updateCharts(gfx, present, content.heap[ref]),
                  result |-> [aiScore |-> content.score,
                              details |-> formatDetailsBase(content.aiMarkers,
                                                            content.heap[ref]),
                              metrics |-> ref]]

-----------------------------------------------------------------------------
(* Input texts *)

\* the pieces short texts are made of: whitespace, a delimiter, a comma, the
\* conjunction and the relative pronoun the classification looks for (the
\* pronoun in two cases), a word of more than 3 letters, and a word that is
\* an array index
Pieces == {
    <<" ">>, <<".">>, <<",">>, <<"e", "t">>, <<"q", "u", "i">>,
    <<"Q", "u", "i">>, <<"c", "h", "a", "t">>, <<"2", "0", "2", "4">> }

\* the units long texts repeat: a short word with a leading or a trailing
\* blank, short sentences with and without a transition word, a long word
\* in two cases, a delimiter, a blank
RepUnits == {
    <<" ", "a">>, <<"a", " ">>, <<"a", ".", " ">>, <<"o", "r", " ", "a", "!">>,
    <<"C", "h", "a", "t", " ", "c", "h", "a", "t", "\n">>, <<"?">>, <<" ">> }

RECURSIVE Concats(_, _)
Concats(P, n) ==
    IF n = 0 THEN {<<>>}
    ELSE LET shorter == Concats(P, n - 1)
         IN  shorter \cup {t \o p : t \in shorter, p \in P}

RECURSIVE Repeat(_, _)
Repeat(u, n) == IF n = 0 THEN <<>> ELSE u \o Repeat(u, n - 1)

Inputs ==
    Concats(Pieces, MaxPieces) \cup {Repeat(u, n) : u \in RepUnits, n \in 1..MaxRep}

-----------------------------------------------------------------------------
(* The page: a text in the input field, then clicks on the two buttons *)

Init ==
    /\ textInput \in Inputs
    /\ aiScore = "-"
    /\ detailedAnalysis = <<>>
    /\ canvases = ChartNames
    /\ charts = NoCharts
    /\ chartStore = <<>>
    /\ analyzer = [currentText |-> <<>>, metrics |-> 0]
    /\ heap = <<>>
    /\ returned = <<>>
    /\ clicks = 0

\* window.analyzeText.  The handler's await resumes in a microtask, before any
\* other event handler runs, so the handler is one step.
WindowAnalyzeText ==
    /\ clicks < MaxClicks
    /\ \E new \in {NewTextAnalyzer(heap)} :
       \E r \in {analyzeTextCall(new.analyzer, new.heap,
                                [charts |-> charts, chartStore |-> chartStore],
                                canvases, textInput)} :
           /\ analyzer' = r.analyzer
           /\ heap' = r.heap
           /\ charts' = r.gfx.charts
           /\ chartStore' = r.gfx.chartStore
           /\ returned' = <<[text |-> textInput, result |-> r.result]>>
           /\ aiScore' = <<r.result.aiScore, "%">>
           /\ detailedAnalysis' = r.result.details
    /\ clicks' = clicks + 1
    /\ UNCHANGED <<textInput, canvases>>

\* window.clearText
WindowClearText ==
    /\ clicks < MaxClicks
    /\ textInput' = <<>>
    /\ aiScore' = "-"
    /\ detailedAnalysis' = <<>>
    /\ chartStore' = DestroyAll(charts, chartStore)
    /\ clicks' = clicks + 1
    /\ UNCHANGED <<canvases, charts, analyzer, heap, returned>>

Next == WindowAnalyzeText \/ WindowClearText

Spec == Init /\ [][Next]_vars

-----------------------------------------------------------------------------
(* One TextAnalyzer instance called several times *)

CallTexts == {
    <<>>, <<" ">>, <<"c", "h", "a", "t">>, <<"e", "t", ".", " ", "a">>,
    <<",", "q", "u", "i">> }

InitInstance ==
    /\ textInput = <<>>
    /\ aiScore = "-"
    /\ detailedAnalysis = <<>>
    /\ canvases \in SUBSET ChartNames
    /\ charts = NoCharts
    /\ chartStore = <<>>
    /\ analyzer = NewTextAnalyzer(<<>>).analyzer
    /\ heap = NewTextAnalyzer(<<>>).heap
    /\ returned = <<>>
    /\ clicks = 0

\* analyzer.analyzeText(text) on the instance, the caller keeping the result
InstanceAnalyzeText(text) ==
    /\ Len(returned) < MaxCalls
    /\ \E r \in {analyzeTextCall(analyzer, heap,
                                 [charts |-> charts, chartStore |-> chartStore],
                                 canvases, text)} :
           /\ analyzer' = r.analyzer
           /\ heap' = r.heap
           /\ charts' = r.gfx.charts
           /\ chartStore' = r.gfx.chartStore
           /\ returned' = Append(returned, [text |-> text, result |-> r.result])
    /\ UNCHANGED <<textInput, aiScore, detailedAnalysis, canvases, clicks>>

NextInstance == \E text \in CallTexts : InstanceAnalyzeText(text)

SpecInstance == InitInstance /\ [][NextInstance]_vars

-----------------------------------------------------------------------------
(* What the claims speak of *)

\* the calls made so far, each with its text and its result
Calls == {returned[i] : i \in 1..Len(returned)}

IsBlank(text) == \A i \in 1..Len(text) : text[i] \in Whitespace

\* the metrics object a result refers to, as it is now
MetricsOf(c) == heap[c.result.metrics]

\* the marker list of a result (the advisory message carries none)
MarkersOf(c) ==
    IF c.result.details.kind = "report" THEN c.result.details.markers ELSE <<>>

HasMarker(c, type, severity) ==
    \E i \in 1..Len(MarkersOf(c)) :
        MarkersOf(c)[i].type = type /\ MarkersOf(c)[i].severity = severity

\* the number of non-empty sentences of a text, counted on the text itself:
\* the maximal delimiter-free stretches that hold a non-whitespace character
SentenceCount(text) ==
    Cardinality({i \in 1..Len(text) :
        /\ text[i] \notin Delimiters
        /\ i = 1 \/ text[i - 1] \in Delimiters
        /\ \E j \in i..Len(text) :
              /\ text[j] \notin Whitespace
              /\ \A k \in i..j : text[k] \notin Delimiters})

\* the score a marker stands for
Contribution(m) ==
    CASE m.type = "structure" /\ m.severity = "high" -> 15
      [] m.type = "coherence" /\ m.severity = "medium" -> 10
      [] m.type = "structure" /\ m.severity = "medium" -> 10
      [] m.type = "vocabulary" /\ m.severity = "high" -> 20
      [] m.type = "vocabulary" /\ m.severity = "medium" -> 0

ContributionSum(markers) ==
    SumSeq([i \in 1..Len(markers) |-> Contribution(markers[i])])

-----------------------------------------------------------------------------
(* The claims *)

\* C1: for a text that is empty or only whitespace, analyzeText returns score
\* 0, the fixed advisory message without any marker, and metrics whose every
\* statistic is zero or empty; the pipeline does not run (the instance's own
\* metrics object, which the pipeline would replace and fill, is still the
\* empty one the constructor made).
C1_EmptyInputZeroResult ==
    \A c \in Calls :
        IsBlank(c.text) =>
            /\ c.result.aiScore = 0
            /\ c.result.details = Advisory
            /\ MarkersOf(c) = <<>>
            /\ MetricsOf(c).vocabularyStats.uniqueWords = 0
            /\ MetricsOf(c).vocabularyStats.totalWords = 0
            /\ MetricsOf(c).vocabularyStats.avgWordLength = Ratio(0, 1)
            /\ MetricsOf(c).vocabularyStats.commonWords = <<>>
            /\ MetricsOf(c).sentenceStats.lengths = <<>>
            /\ MetricsOf(c).sentenceStats.types = [simple |-> 0, compound |-> 0, complex |-> 0]
            /\ MetricsOf(c).sentenceStats.transitions = <<>>
            /\ heap[analyzer.metrics].vocabularyStats.totalWords = 0
            /\ heap[analyzer.metrics].sentenceStats.lengths = <<>>

\* a whitespace-only text of two characters or more has been analysed
C1_Witness ==
    \E c \in Calls : IsBlank(c.text) /\ Len(c.text) >= 2 /\ c.result.aiScore = 0

\* C2: for a text that is not blank but has no non-empty sentence, the result
\* has no structure marker and no coherence marker, and the score is what the
\* vocabulary markers alone contribute.
C2_NoSentenceSkipsChecks ==
    \A c \in Calls :
        (~IsBlank(c.text) /\ SentenceCount(c.text) = 0) =>
            /\ \A i \in 1..Len(MarkersOf(c)) :
                  MarkersOf(c)[i].type \notin {"structure", "coherence"}
            /\ c.result.aiScore = IF HasMarker(c, "vocabulary", "high") THEN 20 ELSE 0

\* C3: for a text with at least one sentence, the structure/high marker is
\* there exactly when totalWords / sentenceCount > 25, with the reported
\* totalWords and the number of non-empty sentences.
C3_LongSentencesIffAverage ==
    \A c \in Calls :
        SentenceCount(c.text) >= 1 =>
            (HasMarker(c, "structure", "high")
                <=> MetricsOf(c).vocabularyStats.totalWords > 25 * SentenceCount(c.text))

\* C4: the score is the sum of the contributions of the markers of the result
\* (structure/high 15, coherence/medium 10, structure/medium 10,
\* vocabulary/high 20, vocabulary/medium 0); so it is a natural number, and 0
\* when there is no marker.
C4_ScoreIsSumOfMarkers ==
    \A c \in Calls :
        /\ c.result.aiScore = ContributionSum(MarkersOf(c))
        /\ c.result.aiScore \in Nat
        /\ MarkersOf(c) = <<>> => c.result.aiScore = 0

\* all five markers at once: 15 + 0 + 10 + 10 + 20
C4_Witness ==
    \E c \in Calls : Len(MarkersOf(c)) = 5 /\ c.result.aiScore = 55

\* C5: for a non-empty text, simple + compound + complex is the number of
\* non-empty sentences of the text, which is also the length of lengths.
C5_TypeCountsSumToSentences ==
    \A c \in Calls :
        ~IsBlank(c.text) =>
            LET types == MetricsOf(c).sentenceStats.types
            IN  /\ types.simple + types.compound + types.complex = SentenceCount(c.text)
                /\ Len(MetricsOf(c).sentenceStats.lengths) = SentenceCount(c.text)

\* a text of two sentences or more, of two different types
C5_Witness ==
    \E c \in Calls :
        /\ SentenceCount(c.text) >= 2
        /\ MetricsOf(c).sentenceStats.types.compound >= 1
        /\ MetricsOf(c).sentenceStats.types.simple >= 1

IsComplex(sentence) ==
    Includes(sentence, <<",">>)
        /\ (Includes(sentence, <<"q", "u", "i">>) \/ Includes(sentence, <<"q", "u", "e">>))

IsCompound(sentence) ==
    \/ Includes(sentence, <<",">>)
    \/ Includes(sentence, <<"e", "t">>)
    \/ Includes(sentence, <<"o", "u">>)

\* C6: a sentence counts as complex if it has a comma and "qui" or "que";
\* otherwise as compound if it has a comma, "et" or "ou"; otherwise as simple.
\* A sentence that meets both criteria counts as complex only.  The matching
\* is on the sentence as written (case-sensitive, inside words too).
C6_ClassificationPrecedence ==
    \A c \in Calls :
        ~IsBlank(c.text) =>
            LET sentences == SplitSentences(c.text)
                types == MetricsOf(c).sentenceStats.types
                all == 1..Len(sentences)
            IN  /\ types.complex = Cardinality({i \in all : IsComplex(sentences[i])})
                /\ types.compound =
                      Cardinality({i \in all : ~IsComplex(sentences[i]) /\ IsCompound(sentences[i])})
                /\ types.simple =
                      Cardinality({i \in all : ~IsComplex(sentences[i]) /\ ~IsCompound(sentences[i])})

\* a sentence that meets both criteria (a comma, and "qui") is counted once,
\* as complex
C6_Witness ==
    \E c \in Calls :
        /\ c.text = <<",", "q", "u", "i">>
        /\ MetricsOf(c).sentenceStats.types = [simple |-> 0, compound |-> 0, complex |-> 1]

\* C7: commonWords holds the case-folded words of more than 3 characters, by
\* descending count, words of equal count in the order of their first
\* occurrence in the text, cut to the limit, whatever the tokens look like.
C7_CommonWordsInsertionOrder ==
    \A c \in Calls :
        ~IsBlank(c.text) =>
            MetricsOf(c).vocabularyStats.commonWords =
                SliceTo(SortByCountDesc(CountWords(NonEmptyWords(c.text), <<>>)), 20)

\* C8: lengths[i] is the number of non-empty whitespace-delimited tokens of
\* sentence i with its leading and trailing whitespace stripped.
C8_LengthsCountTokens ==
    \A c \in Calls :
        ~IsBlank(c.text) =>
            LET sentences == SplitSentences(c.text)
                lengths == MetricsOf(c).sentenceStats.lengths
            IN  /\ Len(lengths) = Len(sentences)
                /\ \A i \in 1..Len(sentences) :
                      lengths[i] = Len(NonEmptyWords(Trim(sentences[i])))

SameTextSameResult ==
    \A c, d \in Calls :
        c.text = d.text =>
            /\ c.result.aiScore = d.result.aiScore
            /\ c.result.details = d.result.details
            /\ MetricsOf(c) = MetricsOf(d)

NoLaterMutation ==
    \A c \in Calls : heap'[c.result.metrics] = heap[c.result.metrics]

\* C9: on one instance, the result of a call depends on its text alone: two
\* calls with the same text have equal results whatever was called before or
\* between, and no later call changes the metrics object an earlier call
\* returned.
C9_ResultDependsOnTextOnly == []SameTextSameResult /\ [][NoLaterMutation]_vars

\* the same text analysed twice with another text analysed in between
C9_Witness ==
    /\ Len(returned) = 3
    /\ returned[1].text = returned[3].text
    /\ returned[2].text # returned[1].text
    /\ ~IsBlank(returned[1].text)
    /\ ~IsBlank(returned[2].text)
    /\ MetricsOf(returned[1]) = MetricsOf(returned[3])
    /\ MetricsOf(returned[1]) # MetricsOf(returned[2])

\* C10: destroy() is called at most once on each chart object.
C10_DestroyAtMostOnce ==
    \A id \in 1..Len(chartStore) : chartStore[id].destroyCalls <= 1

=============================================================================
